---- MODULE Spec2Model ----
(***************************************************************************)
(* Model of the consumption engine and the recalculation orchestrator of  *)
(* the energy tracker backend (src/backend/db.py).                        *)
(*                                                                         *)
(* The three readings_* tables are one set of rows tagged with their      *)
(* table; consumption_calc is a set of rows.  The AUTOINCREMENT id and    *)
(* the calculated_at timestamp of consumption_calc rows are not modelled. *)
(* Values are naturals (the code uses floats and never rounds).           *)
(*                                                                         *)
(* SQLite evaluates "LIMIT 1" without ORDER BY and ties of "ORDER BY      *)
(* date" in rowid order for the indexes init_db creates; the model does   *)
(* the same (lowest id first).                                             *)
(***************************************************************************)
EXTENDS Integers, Sequences, FiniteSets, TLC

VARIABLES readings, calc, seq, lock, last

vars == <<readings, calc, seq, lock, last>>

\* ------------------------------------------------------------------------
\* Bounds of the model
\* ------------------------------------------------------------------------

\* Number of INSERT statements into the readings tables that are ever run
\* (over the three tables; an upsert that updates counts too).
MaxReadings == 3

\* Longest sequence of readings handed to the engine in a direct call.
MaxLen == 4

\* Number of saves in a run that only saves the readings of one meter.
MaxSaves == 4

\* ------------------------------------------------------------------------
\* Values of nullable columns
\* ------------------------------------------------------------------------

\* SQL NULL / Python None for a nullable number, text or JSON column.
None == <<>>

Some(v) == <<v>>

\* ------------------------------------------------------------------------
\* Dates.  A date is the text 'YYYY-MM-DD' (t = 0) or, for the readings
\* of a meter reset, 'YYYY-MM-DD 00:00:00' (t = 1) and
\* 'YYYY-MM-DD 00:01:00' (t = 2).
\* ------------------------------------------------------------------------

Date(y, m, d, t) == [y |-> y, m |-> m, d |-> d, t |-> t]

\* Order of the date texts as SQLite compares them (text comparison):
\* year, month, day, then the bare date before the ones with a time.
DateKey(dt) == ((dt.y * 12 + dt.m) * 40 + dt.d) * 3 + dt.t

\* SUBSTR(date, 1, 7) / date[:7]
PeriodOf(dt) == [y |-> dt.y, m |-> dt.m]

\* f"{period}-01" and f"{period}-32"
PeriodDay(p, d) == Date(p.y, p.m, d, 0)

\* datetime.strptime(date, '%Y-%m-%d') succeeds only without a time part.
IsPlainDate(dt) == dt.t = 0

\* The previous calendar month, as the handlers compute prev_period.
PrevPeriod(p) ==
    IF p.m = 1 THEN [y |-> p.y - 1, m |-> 12]
               ELSE [y |-> p.y, m |-> p.m - 1]

\* ------------------------------------------------------------------------
\* Consumption engine
\* ------------------------------------------------------------------------

\* comment_val or ''
CommentOrEmpty(c) == IF c = None THEN "" ELSE c[1]

\* One entry of calculation_details["segments"].
Segment(r) == [date |-> r.date, value |-> r.value, comment |-> CommentOrEmpty(r.comment)]

\* PairConsumption as it would be if a negative difference were clamped to
\* 0 instead of being read as a meter reset.
PairConsumption_Clamped(current_value, next_value) ==
    LET diff == next_value - current_value
    IN  IF diff < 0 THEN 0 ELSE diff

\* Consumption of one consecutive pair: the difference, or the later value
\* when the difference is negative (meter reset).
PairConsumption(current_value, next_value) ==
    LET diff == next_value - current_value
    IN  IF diff < 0 THEN next_value ELSE diff

\* SumPairs as it would be if the total were the last value minus the
\* first one.
SumPairs_LastMinusFirst(rs, i) == rs[Len(rs)].value - rs[i].value

\* SumPairs as it would be if a negative difference were read as a meter
\* reset only when the later reading is flagged is_reset.
RECURSIVE SumPairs_FlaggedOnly(_, _)
SumPairs_FlaggedOnly(rs, i) ==
    IF i >= Len(rs) THEN 0
    ELSE (IF rs[i + 1].is_reset
          THEN PairConsumption(rs[i].value, rs[i + 1].value)
          ELSE rs[i + 1].value - rs[i].value)
         + SumPairs_FlaggedOnly(rs, i + 1)

\* The loop "for i in range(len(readings) - 1)": sum over the pairs
\* (i, i+1) for i = from .. Len - 1.
RECURSIVE SumPairs(_, _)
SumPairs(rs, i) ==
    IF i >= Len(rs) THEN 0
    ELSE PairConsumption(rs[i].value, rs[i + 1].value) + SumPairs(rs, i + 1)

\* The engine as it would be if its guard were "len(readings) < 1": one
\* reading would give a total of 0 with details of no segment.
calculate_consumption_from_readings_OneIsEnough(rs) ==
    IF Len(rs) < 1
    THEN [consumption |-> None, details |-> None, segment_count |-> 0]
    ELSE LET total == SumPairs(rs, 1)
         IN  [consumption |-> Some(total),
              details |-> Some([segments |-> [i \in 1..Len(rs) |-> Segment(rs[i])],
                                total_consumption |-> total,
                                segment_count |-> Len(rs) - 1,
                                first_reading_date |-> rs[1].date,
                                last_reading_date |-> rs[Len(rs)].date]),
              segment_count |-> Len(rs) - 1]

\* The engine as it would be if the details listed one entry per counted
\* pair, leaving out the last reading.
calculate_consumption_from_readings_EntryPerPair(rs) ==
    IF Len(rs) < 2
    THEN [consumption |-> None, details |-> None, segment_count |-> 0]
    ELSE LET total == SumPairs(rs, 1)
         IN  [consumption |-> Some(total),
              details |-> Some([segments |-> [i \in 1..(Len(rs) - 1) |-> Segment(rs[i])],
                                total_consumption |-> total,
                                segment_count |-> Len(rs) - 1,
                                first_reading_date |-> rs[1].date,
                                last_reading_date |-> rs[Len(rs)].date]),
              segment_count |-> Len(rs) - 1]

\* _calculate_consumption_from_readings: (total, details, segment_count)
calculate_consumption_from_readings(rs) ==
    IF Len(rs) < 2
    THEN [consumption |-> None, details |-> None, segment_count |-> 0]
    ELSE LET total == SumPairs(rs, 1)
         IN  [consumption |-> Some(total),
              details |-> Some([segments |-> [i \in 1..Len(rs) |-> Segment(rs[i])],
                                total_consumption |-> total,
                                segment_count |-> Len(rs) - 1,
                                first_reading_date |-> rs[1].date,
                                last_reading_date |-> rs[Len(rs)].date]),
              segment_count |-> Len(rs) - 1]

\* ------------------------------------------------------------------------
\* Queries on the readings tables
\* ------------------------------------------------------------------------

\* Row order of "ORDER BY date ASC": date text, ties in rowid order.
Before(a, b) ==
    \/ DateKey(a.date) < DateKey(b.date)
    \/ DateKey(a.date) = DateKey(b.date) /\ a.id < b.id

FirstByDate(S) == CHOOSE a \in S : \A b \in S \ {a} : Before(a, b)

RECURSIVE OrderByDate(_)
OrderByDate(S) ==
    IF S = {} THEN <<>>
    ELSE LET a == FirstByDate(S) IN <<a>> \o OrderByDate(S \ {a})

\* Row returned by "LIMIT 1" without ORDER BY: the lowest rowid.
FirstById(S) == CHOOSE a \in S : \A b \in S : a.id <= b.id

\* WHERE SUBSTR(date, 1, 7) = period
InPeriod(S, period) == {r \in S : PeriodOf(r.date) = period}

\* AfterPeriod as it would be if the threshold were the 31st of the month.
AfterPeriod_FromDay31(S, period) ==
    {r \in S : DateKey(r.date) >= DateKey(PeriodDay(period, 31))}

\* WHERE date >= f"{period}-32"
AfterPeriod(S, period) == {r \in S : DateKey(r.date) >= DateKey(PeriodDay(period, 32))}

\* The rows of one table.
Table(rd, tbl) == {r \in rd : r.tbl = tbl}

\* ------------------------------------------------------------------------
\* Recalculation of one (period, entity)
\* ------------------------------------------------------------------------

\* A consumption_calc row.
CalcRow(period, entity_type, entity_id, meter_id, consumption, details) ==
    [period |-> period, entity_type |-> entity_type, entity_id |-> entity_id,
     meter_id |-> meter_id, consumption_value |-> consumption,
     calculation_details |-> details]

\* DeleteOld as it would be if the old row were not deleted before the
\* INSERT.
DeleteOld_Skipped(cc, period, entity_type, entity_id, meter_id) == cc

\* DELETE FROM consumption_calc WHERE period = ? AND entity_type = ? AND
\* entity_id = ? AND meter_id = ?  (never true for a NULL parameter)
DeleteOld(cc, period, entity_type, entity_id, meter_id) ==
    {c \in cc : ~(/\ c.period = period
                  /\ c.entity_type = entity_type
                  /\ c.entity_id = entity_id
                  /\ meter_id # None
                  /\ c.meter_id = meter_id)}

\* The INSERT of row raises on UNIQUE(period, entity_type, entity_id,
\* meter_id) of consumption_calc: a stored row has these four columns (a
\* NULL meter_id collides with nothing).
InsertCollides(cc, row) ==
    \E c \in cc : /\ c.period = row.period
                  /\ c.entity_type = row.entity_type
                  /\ c.entity_id = row.entity_id
                  /\ row.meter_id # None
                  /\ c.meter_id = row.meter_id

\* CalculateEntity as it would be if a recalculation whose engine result is
\* null stored nothing (the INSERT skipped when consumption is None).
CalculateEntity_NoNullRow(cc, rows, entity_type, entity_id, period) ==
    LET meter_id == IF rows = {} THEN None ELSE Some(FirstById(rows).meter_id)
        kept == {c \in cc : ~(/\ c.period = period
                              /\ c.entity_type = entity_type
                              /\ c.entity_id = entity_id
                              /\ meter_id # None
                              /\ c.meter_id = meter_id)}
        period_readings == OrderByDate(InPeriod(rows, period))
        next_rows == AfterPeriod(rows, period)
        all_readings == IF next_rows = {} THEN period_readings
                        ELSE Append(period_readings, FirstByDate(next_rows))
        res == calculate_consumption_from_readings(all_readings)
    IN  IF Len(period_readings) = 0 \/ res.consumption = None THEN kept
        ELSE kept \cup {CalcRow(period, entity_type, entity_id, meter_id,
                                res.consumption, res.details)}

\* CalculateEntity as it would be if, instead of DELETE then INSERT, it
\* upserted the row and added the new consumption to the stored one.
CalculateEntity_Accumulating(cc, rows, entity_type, entity_id, period) ==
    LET meter_id == IF rows = {} THEN None ELSE Some(FirstById(rows).meter_id)
        old == {c \in cc : /\ c.period = period
                           /\ c.entity_type = entity_type
                           /\ c.entity_id = entity_id
                           /\ meter_id # None
                           /\ c.meter_id = meter_id}
        period_readings == OrderByDate(InPeriod(rows, period))
        next_rows == AfterPeriod(rows, period)
        all_readings == IF next_rows = {} THEN period_readings
                        ELSE Append(period_readings, FirstByDate(next_rows))
        res == calculate_consumption_from_readings(all_readings)
        stored == IF old = {} THEN None ELSE (CHOOSE c \in old : TRUE).consumption_value
        sum == IF res.consumption # None /\ stored # None
               THEN Some(res.consumption[1] + stored[1])
               ELSE res.consumption
    IN  IF Len(period_readings) = 0 THEN cc \ old
        ELSE (cc \ old) \cup {CalcRow(period, entity_type, entity_id, meter_id,
                                      sum, res.details)}

\* CalculateEntity as it would be if the query for the first reading of the
\* next period started at f"{period}-01": without a later reading, the first
\* reading of the period itself would close the sequence.
CalculateEntity_NextFromPeriodStart(cc, rows, entity_type, entity_id, period) ==
    LET meter_id == IF rows = {} THEN None ELSE Some(FirstById(rows).meter_id)
        kept == {c \in cc : ~(/\ c.period = period
                              /\ c.entity_type = entity_type
                              /\ c.entity_id = entity_id
                              /\ meter_id # None
                              /\ c.meter_id = meter_id)}
        period_readings == OrderByDate(InPeriod(rows, period))
        next_rows == {r \in rows : DateKey(r.date) >= DateKey(PeriodDay(period, 1))}
        all_readings == IF next_rows = {} THEN period_readings
                        ELSE Append(period_readings, FirstByDate(next_rows))
        res == calculate_consumption_from_readings(all_readings)
    IN  IF Len(period_readings) = 0 THEN kept
        ELSE kept \cup {CalcRow(period, entity_type, entity_id, meter_id,
                                res.consumption, res.details)}

\* The body shared by _calculate_electricity_consumption,
\* _calculate_gas_consumption and one round of the loop of
\* _calculate_water_consumption.  rows are the readings of the entity
\* (WHERE meter_name = ? / room = ? [AND is_warm_water = ?]); the result is
\* the new content of consumption_calc.
CalculateEntity(cc, rows, entity_type, entity_id, period) ==
    LET meter_id == IF rows = {} THEN None ELSE Some(FirstById(rows).meter_id)
        kept == DeleteOld(cc, period, entity_type, entity_id, meter_id)
        period_readings == OrderByDate(InPeriod(rows, period))
        next_rows == AfterPeriod(rows, period)
        all_readings == IF next_rows = {} THEN period_readings
                        ELSE Append(period_readings, FirstByDate(next_rows))
        res == calculate_consumption_from_readings(all_readings)
    IN  IF Len(period_readings) = 0 THEN kept
        ELSE kept \cup {CalcRow(period, entity_type, entity_id, meter_id,
                                res.consumption, res.details)}

\* The INSERT of that body raises: the period has a reading and the row to
\* insert collides with a row the DELETE left.
CalculateEntityFails(cc, rows, entity_type, entity_id, period) ==
    LET meter_id == IF rows = {} THEN None ELSE Some(FirstById(rows).meter_id)
        kept == DeleteOld(cc, period, entity_type, entity_id, meter_id)
    IN  /\ InPeriod(rows, period) # {}
        /\ InsertCollides(kept, CalcRow(period, entity_type, entity_id, meter_id, None, None))

calculate_electricity_consumption(rd, cc, meter_name, date) ==
    CalculateEntity(cc, {r \in Table(rd, "electricity") : r.entity = meter_name},
                    "electricity", meter_name, PeriodOf(date))

calculate_gas_consumption(rd, cc, room, date) ==
    CalculateEntity(cc, {r \in Table(rd, "gas") : r.entity = room},
                    "gas", room, PeriodOf(date))

\* The Python value passed as is_warm_water: None, a bool of the request
\* model (True / False), or the integer 1 / 0 read back from the
\* is_warm_water column of a row.
PyBool(b) == IF b THEN "True" ELSE "False"

SqlInt(b) == IF b THEN "1" ELSE "0"

\* "is_warm_water is None or is_warm_water is True" selects the warm
\* channel, "... is False" the cold one: an identity test, which an
\* integer from a row never passes.  The loop handles water_warm first.
\* calculate_water_consumption as it would be if it still stored a record
\* of the room's total after the channels, as the revision before did.
calculate_water_consumption_WithTotal(rd, cc, room, date, is_warm_water) ==
    LET warm_rows == {r \in Table(rd, "water") : r.entity = room /\ r.warm}
        cold_rows == {r \in Table(rd, "water") : r.entity = room /\ ~r.warm}
        cc1 == IF is_warm_water \in {"None", "True"}
               THEN CalculateEntity(cc, warm_rows, "water_warm", room, PeriodOf(date))
               ELSE cc
        cc2 == IF is_warm_water \in {"None", "False"}
               THEN CalculateEntity(cc1, cold_rows, "water_cold", room, PeriodOf(date))
               ELSE cc1
    IN  IF InPeriod(warm_rows \cup cold_rows, PeriodOf(date)) = {}
        THEN cc2
        ELSE {c \in cc2 : ~(c.period = PeriodOf(date) /\ c.entity_type = "water_total"
                            /\ c.entity_id = room)}
             \cup {CalcRow(PeriodOf(date), "water_total", room, None, None, None)}

\* calculate_water_consumption as it would be if the SELECTs did not filter
\* on is_warm_water.
calculate_water_consumption_AnyChannel(rd, cc, room, date, is_warm_water) ==
    LET rows == {r \in Table(rd, "water") : r.entity = room}
        cc1 == IF is_warm_water \in {"None", "True"}
               THEN CalculateEntity(cc, rows, "water_warm", room, PeriodOf(date))
               ELSE cc
    IN  IF is_warm_water \in {"None", "False"}
        THEN CalculateEntity(cc1, rows, "water_cold", room, PeriodOf(date))
        ELSE cc1

calculate_water_consumption(rd, cc, room, date, is_warm_water) ==
    LET warm_rows == {r \in Table(rd, "water") : r.entity = room /\ r.warm}
        cold_rows == {r \in Table(rd, "water") : r.entity = room /\ ~r.warm}
        cc1 == IF is_warm_water \in {"None", "True"}
               THEN CalculateEntity(cc, warm_rows, "water_warm", room, PeriodOf(date))
               ELSE cc
    IN  IF is_warm_water \in {"None", "False"}
        THEN CalculateEntity(cc1, cold_rows, "water_cold", room, PeriodOf(date))
        ELSE cc1

\* The _calculate_*_consumption call a handler of table tbl makes.
Calculate(rd, cc, tbl, entity, date, is_warm_water) ==
    CASE tbl = "electricity" -> calculate_electricity_consumption(rd, cc, entity, date)
      [] tbl = "water" -> calculate_water_consumption(rd, cc, entity, date, is_warm_water)
      [] tbl = "gas" -> calculate_gas_consumption(rd, cc, entity, date)

\* That call raises in an INSERT (for water: in the first round of the
\* loop, or in the second one after the first went through).
CalculateFails(rd, cc, tbl, entity, date, is_warm_water) ==
    LET rows(warm) == {r \in Table(rd, tbl) : r.entity = entity /\ r.warm = warm}
        period == PeriodOf(date)
    IN  IF tbl # "water"
        THEN CalculateEntityFails(cc, rows(FALSE), tbl, entity, period)
        ELSE \/ /\ is_warm_water \in {"None", "True"}
                /\ CalculateEntityFails(cc, rows(TRUE), "water_warm", entity, period)
             \/ /\ is_warm_water \in {"None", "False"}
                /\ CalculateEntityFails(
                       calculate_water_consumption(rd, cc, entity, date,
                           IF is_warm_water = "None" THEN "True" ELSE "0"),
                       rows(FALSE), "water_cold", entity, period)

\* "SELECT 1 FROM readings_<tbl> WHERE <entity> = ? [AND is_warm_water = ?]
\*  AND SUBSTR(date, 1, 7) = ? LIMIT 1" returns a row.
HasReadingIn(rd, tbl, entity, is_warm_water, period) ==
    \E r \in Table(rd, tbl) :
        /\ r.entity = entity
        /\ (tbl = "water" => is_warm_water = PyBool(r.warm) \/ is_warm_water = SqlInt(r.warm))
        /\ PeriodOf(r.date) = period

\* CalculatePrevious as it would be if the handlers stopped after the
\* recalculation of the month of the reading.
CalculatePrevious_Skipped(rd, cc, tbl, entity, date, is_warm_water) == cc

\* The recalculation of the previous month that the save and delete
\* handlers append: only when that month has a reading of the entity.
CalculatePrevious(rd, cc, tbl, entity, date, is_warm_water) ==
    LET prev_period == PrevPeriod(PeriodOf(date))
    IN  IF HasReadingIn(rd, tbl, entity, is_warm_water, prev_period)
        THEN Calculate(rd, cc, tbl, entity, PeriodDay(prev_period, 1), is_warm_water)
        ELSE cc

\* ------------------------------------------------------------------------
\* State
\* ------------------------------------------------------------------------

Tables == {"electricity", "water", "gas"}

\* A row of readings_<tbl>.  warm is the is_warm_water column of
\* readings_water and FALSE in the other tables.
Row(id, tbl, r, is_reset) ==
    [id |-> id, tbl |-> tbl, date |-> r.date, entity |-> r.entity,
     meter_id |-> r.meter_id, value |-> r.value, comment |-> r.comment,
     is_reset |-> is_reset, warm |-> r.warm]

\* The rows that fall under the table's UNIQUE constraint together with
\* (date, entity, meter_id[, is_warm_water]) of r.
SameKey(rd, tbl, r) ==
    {x \in Table(rd, tbl) : /\ x.date = r.date
                            /\ x.entity = r.entity
                            /\ x.meter_id = r.meter_id
                            /\ x.warm = r.warm}

Created(sq) == sq["electricity"] + sq["water"] + sq["gas"]

\* The last request handled: the handler, the table, the entity, channel
\* and date it was given (for a delete: those of the deleted row), the id
\* of the row, and how it ended ("ok", "notfound" for a False return,
\* "error" for an exception).  n counts what the handler reports.
Last(op, tbl, r, id, outcome) ==
    [op |-> op, tbl |-> tbl, entity |-> r.entity, warm |-> r.warm,
     date |-> r.date, id |-> id, outcome |-> outcome, n |-> 0]

NoInput == [entity |-> "", warm |-> FALSE, date |-> Date(0, 0, 0, 0)]

Init ==
    /\ readings = {}
    /\ calc = {}
    /\ seq = [t \in Tables |-> 0]
    /\ lock = FALSE
    /\ last = Last("init", "", NoInput, 0, "ok")

\* A handler whose UPDATE raises leaves its connection open, inside the
\* transaction the UPDATE began; that connection holds the database's
\* write lock until the interpreter collects it.  lock is TRUE while such a
\* connection may still be alive.  The first write of a later handler then
\* either finds the lock gone, or raises "database is locked" once the
\* busy timeout is over, which is Busy: nothing is written.
Busy(op, tbl) ==
    /\ lock
    /\ UNCHANGED <<readings, calc, seq, lock>>
    /\ last' = Last(op, tbl, NoInput, 0, "error")

\* ------------------------------------------------------------------------
\* Single-reading handlers
\* ------------------------------------------------------------------------

\* INSERT ... ON CONFLICT(...) DO UPDATE SET value, comment RETURNING id.
\* SQLite draws the AUTOINCREMENT id before it finds the conflict, so that
\* an upsert that updates uses one up as well.
Upsert(rd, sq, tbl, r) ==
    LET ex == SameKey(rd, tbl, r)
    IN  IF ex = {}
        THEN [rd |-> rd \cup {Row(sq[tbl] + 1, tbl, r, FALSE)},
              sq |-> [sq EXCEPT ![tbl] = @ + 1],
              id |-> sq[tbl] + 1]
        ELSE LET x == CHOOSE x \in ex : TRUE
             IN  [rd |-> (rd \ {x}) \cup {[x EXCEPT !.value = r.value, !.comment = r.comment]},
                  sq |-> [sq EXCEPT ![tbl] = @ + 1],
                  id |-> x.id]

\* save_electricity_reading, save_water_reading and save_gas_reading: the
\* upsert, the recalculation of the month of the reading and, after
\* strptime accepted the date, of the month before.
SaveReading(tbl, r) ==
    LET up == Upsert(readings, seq, tbl, r)
        w == PyBool(r.warm)
        cc1 == Calculate(up.rd, calc, tbl, r.entity, r.date, w)
    IN  \/ Busy("save", tbl)
        \/ /\ readings' = up.rd
           /\ seq' = up.sq
           /\ lock' = FALSE
           /\ IF IsPlainDate(r.date)
              THEN /\ calc' = CalculatePrevious(up.rd, cc1, tbl, r.entity, r.date, w)
                   /\ last' = Last("save", tbl, r, up.id, "ok")
              ELSE /\ calc' = cc1
                   /\ last' = Last("save", tbl, r, up.id, "error")

save_electricity_reading(r) == SaveReading("electricity", r)

save_water_reading(r) == SaveReading("water", r)

save_gas_reading(r) == SaveReading("gas", r)

\* The row of table tbl with the given id, as a set (empty: no such row).
ById(rd, tbl, id) == {x \in Table(rd, tbl) : x.id = id}

\* UpdateReading as it would be if the UPDATE replaced the row that holds
\* the new key instead of raising on the UNIQUE constraint.
UpdateReading_Replacing(tbl, id, r) ==
    LET cur == ById(readings, tbl, id)
    IN  \/ Busy("update", tbl)
        \/ /\ seq' = seq
           /\ lock' = FALSE
           /\ IF cur = {}
              THEN /\ UNCHANGED <<readings, calc>>
                   /\ last' = Last("update", tbl, r, id, "notfound")
              ELSE LET x == CHOOSE x \in cur : TRUE
                       rd1 == ((readings \ {x}) \ SameKey(readings, tbl, r))
                                  \cup {Row(id, tbl, r, x.is_reset)}
                   IN  /\ readings' = rd1
                       /\ calc' = Calculate(rd1, calc, tbl, r.entity, r.date, PyBool(r.warm))
                       /\ last' = Last("update", tbl, r, id, "ok")

\* update_electricity_reading and update_gas_reading: UPDATE ... WHERE id,
\* then one recalculation, for the new entity and the month of the new
\* date.  The UPDATE raises on the table's UNIQUE constraint.
UpdateReading(tbl, id, r) ==
    LET cur == ById(readings, tbl, id)
    IN  \/ Busy("update", tbl)
        \/ /\ seq' = seq
           /\ IF cur = {}
              THEN /\ UNCHANGED <<readings, calc>>
                   /\ lock' = FALSE
                   /\ last' = Last("update", tbl, r, id, "notfound")
              ELSE LET x == CHOOSE x \in cur : TRUE
                       rd1 == (readings \ {x}) \cup {Row(id, tbl, r, x.is_reset)}
                   IN  IF SameKey(readings \ {x}, tbl, r) # {}
                       THEN /\ UNCHANGED <<readings, calc>>
                            /\ lock' = TRUE
                            /\ last' = Last("update", tbl, r, id, "error")
                       ELSE /\ readings' = rd1
                            /\ lock' = FALSE
                            /\ calc' = Calculate(rd1, calc, tbl, r.entity, r.date, PyBool(r.warm))
                            /\ last' = Last("update", tbl, r, id, "ok")

update_electricity_reading(id, r) == UpdateReading("electricity", id, r)

update_gas_reading(id, r) == UpdateReading("gas", id, r)

\* update_water_reading: as above and, when the room or the channel
\* changed, a recalculation for the old room, date and channel, the channel
\* being the integer of the old row.
update_water_reading(id, r) ==
    LET cur == ById(readings, "water", id)
    IN  \/ Busy("update", "water")
        \/ /\ seq' = seq
           /\ IF cur = {}
              THEN /\ UNCHANGED <<readings, calc>>
                   /\ lock' = FALSE
                   /\ last' = Last("update", "water", r, id, "notfound")
              ELSE LET x == CHOOSE x \in cur : TRUE
                       rd1 == (readings \ {x}) \cup {Row(id, "water", r, x.is_reset)}
                       cc1 == calculate_water_consumption(rd1, calc, r.entity, r.date, PyBool(r.warm))
                   IN  IF SameKey(readings \ {x}, "water", r) # {}
                       THEN /\ UNCHANGED <<readings, calc>>
                            /\ lock' = TRUE
                            /\ last' = Last("update", "water", r, id, "error")
                       ELSE /\ readings' = rd1
                            /\ lock' = FALSE
                            /\ calc' = IF x.entity # r.entity \/ x.warm # r.warm
                                       THEN calculate_water_consumption(rd1, cc1, x.entity, x.date, SqlInt(x.warm))
                                       ELSE cc1
                            /\ last' = Last("update", "water", r, id, "ok")

\* delete_electricity_reading, delete_water_reading and delete_gas_reading:
\* DELETE ... WHERE id, the recalculation of the month of the deleted row
\* and, after strptime accepted the row's date, of the month before.  For
\* water the channel passed on is the integer of the deleted row.
DeleteReading(tbl, id) ==
    LET cur == ById(readings, tbl, id)
    IN  \/ Busy("delete", tbl)
        \/ /\ seq' = seq
           /\ lock' = FALSE
           /\ IF cur = {}
              THEN /\ UNCHANGED <<readings, calc>>
                   /\ last' = Last("delete", tbl, NoInput, id, "notfound")
              ELSE LET x == CHOOSE x \in cur : TRUE
                       rd1 == readings \ {x}
                       w == SqlInt(x.warm)
                       cc1 == Calculate(rd1, calc, tbl, x.entity, x.date, w)
                   IN  /\ readings' = rd1
                       /\ IF IsPlainDate(x.date)
                          THEN /\ calc' = CalculatePrevious(rd1, cc1, tbl, x.entity, x.date, w)
                               /\ last' = Last("delete", tbl, x, id, "ok")
                          ELSE /\ calc' = cc1
                               /\ last' = Last("delete", tbl, x, id, "error")

delete_electricity_reading(id) == DeleteReading("electricity", id)

delete_water_reading(id) == DeleteReading("water", id)

delete_gas_reading(id) == DeleteReading("gas", id)

\* ------------------------------------------------------------------------
\* Meter resets
\* ------------------------------------------------------------------------

PreResetComment == Some("Pre-reset reading (last value before meter replacement)")

ResetComment == Some("Reset reading (new meter starting value)")

\* INSERT ... ON CONFLICT(...) DO UPDATE SET value, comment, is_reset of
\* save_meter_resets; the inserted row has is_reset = 1.
UpsertReset(rd, sq, tbl, r) ==
    LET ex == SameKey(rd, tbl, r)
    IN  IF ex = {}
        THEN [rd |-> rd \cup {Row(sq[tbl] + 1, tbl, r, TRUE)},
              sq |-> [sq EXCEPT ![tbl] = @ + 1]]
        ELSE LET x == CHOOSE x \in ex : TRUE
             IN  [rd |-> (rd \ {x}) \cup {[x EXCEPT !.value = r.value,
                                                    !.comment = r.comment,
                                                    !.is_reset = TRUE]},
                  sq |-> [sq EXCEPT ![tbl] = @ + 1]]

\* One round of a "for reset in resets.<table>" loop: the pre-reset reading
\* at 00:00:00 of the day, the reset reading one minute later, and the
\* recalculation of the month of the day.
\* ApplyReset as it would be if the reset reading were dated like the
\* pre-reset reading, without the minute added.
ApplyReset_SameMinute(st, base_date, reset) ==
    LET mk(t, v, c) == [date |-> Date(base_date.y, base_date.m, base_date.d, t),
                        entity |-> reset.entity, meter_id |-> reset.meter_id,
                        value |-> v, comment |-> c, warm |-> reset.warm]
        u1 == UpsertReset(st.rd, st.sq, reset.tbl, mk(1, reset.last_reading, PreResetComment))
        u2 == UpsertReset(u1.rd, u1.sq, reset.tbl, mk(1, reset.reset_value, ResetComment))
    IN  [rd |-> u2.rd, sq |-> u2.sq,
         cc |-> Calculate(u2.rd, st.cc, reset.tbl, reset.entity, base_date, PyBool(reset.warm)),
         created_count |-> st.created_count + 2]

ApplyReset(st, base_date, reset) ==
    LET mk(t, v, c) == [date |-> Date(base_date.y, base_date.m, base_date.d, t),
                        entity |-> reset.entity, meter_id |-> reset.meter_id,
                        value |-> v, comment |-> c, warm |-> reset.warm]
        u1 == UpsertReset(st.rd, st.sq, reset.tbl, mk(1, reset.last_reading, PreResetComment))
        u2 == UpsertReset(u1.rd, u1.sq, reset.tbl, mk(2, reset.reset_value, ResetComment))
    IN  [rd |-> u2.rd, sq |-> u2.sq,
         cc |-> Calculate(u2.rd, st.cc, reset.tbl, reset.entity, base_date, PyBool(reset.warm)),
         created_count |-> st.created_count + 2]

RECURSIVE ApplyResets(_, _, _, _)
ApplyResets(st, base_date, resets, i) ==
    IF i > Len(resets) THEN st
    ELSE ApplyResets(ApplyReset(st, base_date, resets[i]), base_date, resets, i + 1)

\* save_meter_resets.  resets lists the electricity resets of the request,
\* then the water resets, then the gas resets; last.n is the
\* created_readings of the value returned, last.resets the request.
save_meter_resets(date, resets) ==
    LET st == ApplyResets([rd |-> readings, sq |-> seq, cc |-> calc, created_count |-> 0],
                          date, resets, 1)
        at == [NoInput EXCEPT !.date = date]
    IN  \/ Busy("resets", "") /\ IsPlainDate(date) /\ resets # <<>>
        \/ IF ~IsPlainDate(date)
           THEN /\ UNCHANGED <<readings, calc, seq, lock>>
                /\ last' = Last("resets", "", at, 0, "error")
           ELSE /\ readings' = st.rd
                /\ seq' = st.sq
                /\ calc' = st.cc
                /\ lock' = IF resets = <<>> THEN lock ELSE FALSE
                /\ last' = [op |-> "resets", tbl |-> "", entity |-> "", warm |-> FALSE,
                            date |-> date, id |-> 0, outcome |-> "ok",
                            n |-> st.created_count, resets |-> resets]

\* ------------------------------------------------------------------------
\* Operations on all readings of a date
\* ------------------------------------------------------------------------

\* The date an UPDATE of update_readings_by_date writes: new_date_value,
\* for a reset reading followed by the time of the row's date, or by
\* 00:00:00 when that has none.
MovedDate(x, new_date_value) ==
    IF ~x.is_reset THEN new_date_value
    ELSE Date(new_date_value.y, new_date_value.m, new_date_value.d,
              IF x.date.t # 0 THEN x.date.t ELSE 1)

\* One round of a "for reading in <table>" loop.  st.failed is set by the
\* UPDATE that raises on the UNIQUE constraint; the rounds before it have
\* been committed by their recalculation.
ApplyUpdate(st, new_date_value, item) ==
    LET cur == ById(st.rd, item.tbl, item.id)
    IN  IF cur = {} THEN st
        ELSE LET x == CHOOSE x \in cur : TRUE
                 y == [x EXCEPT !.value = item.value, !.comment = item.comment,
                                !.date = MovedDate(x, new_date_value)]
                 rd1 == (st.rd \ {x}) \cup {y}
             IN  IF SameKey(st.rd \ {x}, item.tbl, y) # {}
                 THEN [st EXCEPT !.failed = TRUE]
                 ELSE [rd |-> rd1,
                       cc |-> Calculate(rd1, st.cc, item.tbl, x.entity, new_date_value,
                                        SqlInt(x.warm)),
                       failed |-> FALSE,
                       updated |-> st.updated + 1]

RECURSIVE ApplyUpdates(_, _, _, _)
ApplyUpdates(st, new_date_value, items, i) ==
    IF i > Len(items) \/ st.failed THEN st
    ELSE ApplyUpdates(ApplyUpdate(st, new_date_value, items[i]), new_date_value, items, i + 1)

\* update_readings_by_date.  items lists the electricity items of the
\* request, then the water items, then the gas items; new_date is None or
\* Some(date).
update_readings_by_date(date, new_date, items) ==
    LET new_date_value == IF new_date # None THEN new_date[1] ELSE date
        st == ApplyUpdates([rd |-> readings, cc |-> calc, failed |-> FALSE, updated |-> 0],
                           new_date_value, items, 1)
        at == [NoInput EXCEPT !.date = new_date_value]
    IN  \/ Busy("update_by_date", "") /\ items # <<>>
        \/ /\ readings' = st.rd
           /\ calc' = st.cc
           /\ seq' = seq
           /\ lock' = IF items = <<>> THEN lock ELSE FALSE
           /\ last' = [Last("update_by_date", "", at, 0,
                            IF st.failed THEN "error" ELSE "ok")
                          EXCEPT !.n = st.updated]

\* WHERE date LIKE f"{date}%" [AND is_reset = ?]; is_reset is "None",
\* "True" or "False".
OnDate(rd, date, is_reset) ==
    {r \in rd : /\ r.date.y = date.y /\ r.date.m = date.m /\ r.date.d = date.d
                /\ (is_reset # "None" => PyBool(r.is_reset) = is_reset)}

\* One "for ... in <rows>" loop of recalculations over the entities of a
\* table; the rounds write disjoint rows of consumption_calc.
RECURSIVE CalculateEach(_, _, _, _, _)
CalculateEach(rd, cc, tbl, entities, date) ==
    IF entities = {} THEN cc
    ELSE LET e == CHOOSE e \in entities : TRUE
         IN  CalculateEach(rd, Calculate(rd, cc, tbl, e, date, "None"),
                           tbl, entities \ {e}, date)

\* The entities of the loop that have a reading in the previous month (for
\* water: of either channel).
WithPrevious(rd, tbl, entities, period) ==
    {e \in entities : \E r \in Table(rd, tbl) :
                         r.entity = e /\ PeriodOf(r.date) = PrevPeriod(period)}

\* One round of a recalculation loop of delete_readings_by_date: the table,
\* the entity, and whether the round is for the month before.
Round(tbl, entity, prev) == [tbl |-> tbl, entity |-> entity, prev |-> prev]

\* delete_readings_by_date: deletes the readings of the date, every
\* consumption_calc row of the period of a deleted reading, then
\* recalculates that period and the period before for each entity that
\* lost a reading (both channels of a water room).  The handlers run in the
\* server's thread pool, each on its own connection: raised are the rounds
\* whose recalculation raises "database is locked" because the connection
\* of another request, left open by a failed UPDATE, holds the write lock
\* when the round starts.  "except: pass" drops the exception; the value
\* returned carries the numbers of deleted rows and a message, and
\* last.failed is what it tells about rounds that failed.
delete_readings_by_date(date, is_reset, raised) ==
    LET gone == OnDate(readings, date, is_reset)
        rd1 == readings \ gone
        period == PeriodOf(date)
        ents(tbl) == {r.entity : r \in Table(gone, tbl)}
        befores(tbl) == WithPrevious(rd1, tbl, ents(tbl), period)
        made == UNION {{Round(tbl, e, FALSE) : e \in ents(tbl)}
                       \cup {Round(tbl, e, TRUE) : e \in befores(tbl)} : tbl \in Tables}
        run(tbl, es, prev) == {e \in es : Round(tbl, e, prev) \notin raised}
        cc0 == IF gone = {} THEN calc ELSE {c \in calc : c.period # period}
        cc1 == CalculateEach(rd1, cc0, "electricity",
                             run("electricity", ents("electricity"), FALSE), PeriodDay(period, 1))
        cc2 == CalculateEach(rd1, cc1, "water",
                             run("water", ents("water"), FALSE), PeriodDay(period, 1))
        cc3 == CalculateEach(rd1, cc2, "gas",
                             run("gas", ents("gas"), FALSE), PeriodDay(period, 1))
        prev == PeriodDay(PrevPeriod(period), 1)
        cc4 == CalculateEach(rd1, cc3, "electricity",
                             run("electricity", befores("electricity"), TRUE), prev)
        cc5 == CalculateEach(rd1, cc4, "water", run("water", befores("water"), TRUE), prev)
        cc6 == CalculateEach(rd1, cc5, "gas", run("gas", befores("gas"), TRUE), prev)
        at == [NoInput EXCEPT !.date = date]
    IN  \/ Busy("delete_by_date", "") /\ raised = {}
        \/ /\ raised \subseteq made
           /\ readings' = rd1
           /\ calc' = cc6
           /\ seq' = seq
           /\ lock' = (raised # {})
           /\ last' = [op |-> "delete_by_date", tbl |-> "", entity |-> "",
                       warm |-> FALSE, date |-> date, id |-> 0, outcome |-> "ok",
                       n |-> Cardinality(gone), made |-> made, raised |-> raised,
                       failed |-> {}]

\* ------------------------------------------------------------------------
\* Direct recalculation
\* ------------------------------------------------------------------------

\* A call of _calculate_electricity_consumption, _calculate_water_consumption
\* (for one channel) or _calculate_gas_consumption with a date of the period.
\* last.n is 2 when the call repeats the call before it, else 1.  A call
\* whose INSERT raises has committed nothing.
Recalculate(tbl, entity, period, warm) ==
    LET date == PeriodDay(period, 1)
        r == [entity |-> entity, warm |-> warm, date |-> date]
        again == last.op = "recalc" /\ last.tbl = tbl /\ last.entity = entity
                 /\ last.warm = warm /\ last.date = date
    IN  \/ Busy("recalc", tbl)
        \/ /\ UNCHANGED <<readings, seq>>
           /\ IF CalculateFails(readings, calc, tbl, entity, date, PyBool(warm))
              THEN /\ calc' = calc
                   /\ lock' = TRUE
                   /\ last' = Last("recalc", tbl, r, 0, "error")
              ELSE /\ calc' = Calculate(readings, calc, tbl, entity, date, PyBool(warm))
                   /\ lock' = FALSE
                   /\ last' = [Last("recalc", tbl, r, 0, "ok")
                                  EXCEPT !.n = IF again THEN 2 ELSE 1]

\* A sequence rs of rows about to be handed to the engine.
EngineInput(rs) ==
    [op |-> "input", tbl |-> "", entity |-> "", warm |-> FALSE,
     date |-> NoInput.date, id |-> 0, outcome |-> "ok", n |-> Len(rs),
     input |-> rs, result |-> None]

\* The call of _calculate_consumption_from_readings with that sequence.
\* last keeps the sequence and the tuple the call returns; the call reads
\* and writes no table.
EngineCall ==
    /\ last.op = "input"
    /\ last' = [last EXCEPT !.op = "engine",
                            !.result = calculate_consumption_from_readings(last.input)]
    /\ UNCHANGED <<readings, calc, seq, lock>>

\* ------------------------------------------------------------------------
\* Requests
\* ------------------------------------------------------------------------

\* December with two days, then January: the month before January is
\* December of the year before.
Dates == {Date(2023, 12, 10, 0), Date(2023, 12, 20, 0), Date(2024, 1, 5, 0)}

\* One day of December and one of January.
TwoDates == {Date(2023, 12, 10, 0), Date(2024, 1, 5, 0)}

Periods == {PeriodOf(d) : d \in Dates}

Values == {1, 3}

Comments == {None}

Entities(tbl) ==
    CASE tbl = "electricity" -> {"M"}
      [] tbl = "water" -> {"Bad"}
      [] tbl = "gas" -> {"K"}

Channels(tbl) == IF tbl = "water" THEN BOOLEAN ELSE {FALSE}

\* ElectricityReadingInput, WaterReadingInput, GasReadingInput
Inputs(tbl, dates, meter_ids) ==
    [date : dates, entity : Entities(tbl), meter_id : meter_ids, value : Values,
     comment : Comments, warm : Channels(tbl)]

\* The ids of the rows a table holds.
Ids(tbl) == {x.id : x \in Table(readings, tbl)}

\* The readings tables have room for n more INSERT statements.
Room(n) == Created(seq) + n <= MaxReadings

\* A run addresses one utility: no other table has received a row.
OnlyTable(tbl) == \A t \in Tables \ {tbl} : seq[t] = 0

\* I gives, for each table, the readings that requests may carry.
Save(I) ==
    \/ \E r \in I["electricity"] :
           Room(1) /\ OnlyTable("electricity") /\ save_electricity_reading(r)
    \/ \E r \in I["water"] : Room(1) /\ OnlyTable("water") /\ save_water_reading(r)
    \/ \E r \in I["gas"] : Room(1) /\ OnlyTable("gas") /\ save_gas_reading(r)

Update(I) ==
    \/ \E id \in Ids("electricity"), r \in I["electricity"] : update_electricity_reading(id, r)
    \/ \E id \in Ids("water"), r \in I["water"] : update_water_reading(id, r)
    \/ \E id \in Ids("gas"), r \in I["gas"] : update_gas_reading(id, r)

Delete ==
    \/ \E id \in Ids("electricity") : delete_electricity_reading(id)
    \/ \E id \in Ids("water") : delete_water_reading(id)
    \/ \E id \in Ids("gas") : delete_gas_reading(id)

Recalc ==
    \E tbl \in Tables, period \in Periods :
        \E entity \in Entities(tbl), warm \in Channels(tbl) :
            /\ seq[tbl] > 0
            /\ Recalculate(tbl, entity, period, warm)

\* Saves, updates by id and deletes by id of readings with one meter id;
\* water has two channels and two dates.
OneMeter ==
    [tbl \in Tables |-> Inputs(tbl, IF tbl = "water" THEN TwoDates ELSE Dates, {"a"})]

Next == Save(OneMeter) \/ Update(OneMeter) \/ Delete

Spec == Init /\ [][Next]_vars

\* Saves, deletes by id and direct recalculations; the electricity meter
\* has two meter ids, so that two of its readings can share a date.
TwoMeters ==
    [tbl \in Tables |-> Inputs(tbl, Dates, IF tbl = "electricity" THEN {"a", "b"} ELSE {"a"})]

NextR == Save(TwoMeters) \/ Delete \/ Recalc

SpecR == Init /\ [][NextR]_vars

\* Requests on several readings: meter resets, updates and deletes of the
\* readings of a date, after saves of electricity and cold water readings.
ResetItems ==
    [tbl : {"electricity"}, entity : {"M"}, meter_id : {"a"}, warm : {FALSE},
     last_reading : {3}, reset_value : {1}]
    \cup [tbl : {"water"}, entity : {"Bad"}, meter_id : {"a"}, warm : {FALSE},
          last_reading : {3}, reset_value : {1}]

UpdateItems == [tbl : {"electricity", "water"}, id : {1, 2}, value : {3}, comment : Comments]

\* The requests with no item, with one item, and with one electricity item
\* followed by one water item (a request lists its electricity items before
\* its water items).
UpToTwo(S) ==
    {<<>>} \cup {<<a>> : a \in S}
    \cup {<<a, b>> : a \in {x \in S : x.tbl = "electricity"}, b \in {x \in S : x.tbl = "water"}}

Several(tbl) ==
    IF tbl = "gas" THEN {} ELSE {r \in Inputs(tbl, TwoDates, {"a"}) : ~r.warm}

SaveSeveral ==
    \/ \E r \in Several("electricity") : Room(1) /\ save_electricity_reading(r)
    \/ \E r \in Several("water") : Room(1) /\ save_water_reading(r)

Resets ==
    \E date \in TwoDates, resets \in UpToTwo(ResetItems) :
        Room(2 * Len(resets)) /\ save_meter_resets(date, resets)

UpdateByDate ==
    \E date \in TwoDates, new_date \in {None, Some(Date(2024, 1, 5, 0))} :
        \E items \in UpToTwo(UpdateItems) :
            update_readings_by_date(date, new_date, items)

DeleteByDate ==
    \E date \in TwoDates, is_reset \in {"None", "True", "False"} :
        delete_readings_by_date(date, is_reset, {})

NextBulk == SaveSeveral \/ Resets \/ UpdateByDate \/ DeleteByDate \/ Delete

SpecBulk == Init /\ [][NextBulk]_vars

\* Saves, updates by id and deletes by id of electricity and cold water
\* readings on a store that also receives the readings of meter resets,
\* whose dates carry a time.  Updates write the value 3.
UpdateSeveral ==
    \/ \E id \in Ids("electricity"), r \in Several("electricity") :
           r.value = 3 /\ update_electricity_reading(id, r)
    \/ \E id \in Ids("water"), r \in Several("water") :
           r.value = 3 /\ update_water_reading(id, r)

DeleteSeveral ==
    \/ \E id \in Ids("electricity") : delete_electricity_reading(id)
    \/ \E id \in Ids("water") : delete_water_reading(id)

NextResets == SaveSeveral \/ UpdateSeveral \/ DeleteSeveral \/ Resets

SpecResets == Init /\ [][NextResets]_vars

\* Saves of the readings of one electricity meter on three days of December
\* and one of January, with values that go up or down between two days.
LongDates == Dates \cup {Date(2023, 12, 28, 0)}

LongValues == {10, 15, 22, 30}

SaveLong ==
    \E date \in LongDates, value \in LongValues :
        /\ Created(seq) < MaxSaves
        /\ save_electricity_reading([date |-> date, entity |-> "M", meter_id |-> "a",
                                     value |-> value, comment |-> None, warm |-> FALSE])

NextSaves == SaveLong

SpecSaves == Init /\ [][NextSaves]_vars

\* Direct calls of the engine.  The values hold a reset to 0 and the
\* sequences 100, 120, 30 and 10, 15, 22, 30; the i-th row of a sequence is
\* dated on the i-th of December, and each row may be a reset reading.
EngineValues == {0, 10, 15, 22, 30, 100, 120}

EngineRow(i, value, is_reset) ==
    [date |-> Date(2023, 12, i, 0), value |-> value, comment |-> None,
     is_reset |-> is_reset]

InitEngine ==
    /\ readings = {}
    /\ calc = {}
    /\ seq = [t \in Tables |-> 0]
    /\ lock = FALSE
    /\ \E n \in 0..MaxLen :
           \E vs \in [1..n -> EngineValues], fs \in [1..n -> BOOLEAN] :
               last = EngineInput([i \in 1..n |-> EngineRow(i, vs[i], fs[i])])

NextEngine == EngineCall

SpecEngine == InitEngine /\ [][NextEngine]_vars

\* Saves of electricity, cold water and gas readings on three dates, and
\* bulk deletes of a date during which another request may hold the write
\* lock for one round.
ByDate(tbl) ==
    {r \in Inputs(tbl, Dates, {"a"}) : ~r.warm}

SaveByDate ==
    \/ \E r \in ByDate("electricity") : Room(1) /\ save_electricity_reading(r)
    \/ \E r \in ByDate("water") : Room(1) /\ save_water_reading(r)
    \/ \E r \in ByDate("gas") : Room(1) /\ save_gas_reading(r)

Rounds ==
    UNION {{Round(tbl, e, prev) : e \in Entities(tbl), prev \in BOOLEAN} : tbl \in Tables}

DeleteByDateRaising ==
    \E date \in Dates, is_reset \in {"None", "False"} :
        \E raised \in {{}} \cup {{x} : x \in Rounds} :
            delete_readings_by_date(date, is_reset, raised)

NextByDate == SaveByDate \/ DeleteByDateRaising

SpecByDate == Init /\ [][NextByDate]_vars

\* Runs that only save readings of one key (a meter or a gas room) with one
\* meter id, in any order of three months, of which the middle one may
\* stay empty.
GapDates == {Date(2023, 11, 15, 0), Date(2023, 12, 10, 0), Date(2024, 1, 5, 0)}

SaveGap ==
    \/ \E r \in Inputs("electricity", GapDates, {"a"}) :
           OnlyTable("electricity") /\ Room(1) /\ save_electricity_reading(r)
    \/ \E r \in Inputs("gas", GapDates, {"a"}) :
           OnlyTable("gas") /\ Room(1) /\ save_gas_reading(r)

NextGap == SaveGap

SpecGap == Init /\ [][NextGap]_vars

\* Saves of electricity and gas readings on the last day of a month, on
\* the first day of the next one and in the months around, a meter reset
\* on the last day of December (its readings carry a time), and
\* recalculations of every month.
EdgeDates ==
    {Date(2023, 11, 30, 0), Date(2023, 12, 31, 0), Date(2024, 1, 1, 0), Date(2024, 2, 10, 0)}

EdgePeriods == {PeriodOf(d) : d \in EdgeDates}

SaveEdge ==
    \/ \E r \in Inputs("electricity", EdgeDates, {"a"}) : Room(1) /\ save_electricity_reading(r)
    \/ \E r \in Inputs("gas", EdgeDates, {"a"}) : Room(1) /\ save_gas_reading(r)

ResetEdge ==
    \E reset \in {x \in ResetItems : x.tbl = "electricity"} :
        Room(2) /\ save_meter_resets(Date(2023, 12, 31, 0), <<reset>>)

RecalcEdge ==
    \E tbl \in {"electricity", "gas"}, period \in EdgePeriods :
        \E entity \in Entities(tbl) :
            seq[tbl] > 0 /\ Recalculate(tbl, entity, period, FALSE)

NextEdge == SaveEdge \/ ResetEdge \/ RecalcEdge

SpecEdge == Init /\ [][NextEdge]_vars

\* ------------------------------------------------------------------------
\* Saves in progress at the same time
\* ------------------------------------------------------------------------

\* The routes are plain functions, which the server runs in its thread
\* pool, each request on its own connection.  A save is then three steps
\* that other requests can come between: the upsert with its commit; the
\* recalculation of the month of the reading, one transaction; the look at
\* the month before with its recalculation.  In the runs of such saves
\* last.running lists the saves of the current round (at most two), each
\* with its input, its next step and the months it has recalculated.
Running(reqs) ==
    [op |-> "saving", tbl |-> "", entity |-> "", warm |-> FALSE,
     date |-> NoInput.date, id |-> 0, outcome |-> "ok", n |-> Len(reqs),
     running |-> reqs]

InitPair ==
    /\ readings = {}
    /\ calc = {}
    /\ seq = [t \in Tables |-> 0]
    /\ lock = FALSE
    /\ last = Running(<<>>)

AllDone(reqs) == \A i \in 1..Len(reqs) : reqs[i].pc = "done"

\* The saves of the round that have not written yet.
ToWrite(reqs) == Cardinality({i \in 1..Len(reqs) : reqs[i].pc = "write"})

\* A save request arrives, while the other one of the round is at any step
\* or has returned; after two returned saves a new round begins.
BeginSave(tbl, r) ==
    LET reqs == last.running
        new == [tbl |-> tbl, r |-> r, pc |-> "write", recalculated |-> {}]
    IN  /\ last.op = "saving"
        /\ Len(reqs) < 2 \/ AllDone(reqs)
        /\ Room(ToWrite(reqs) + 1)
        /\ last' = Running(IF Len(reqs) = 2 THEN <<new>> ELSE Append(reqs, new))
        /\ UNCHANGED <<readings, calc, seq, lock>>

\* INSERT ... ON CONFLICT ... and conn.commit()
WriteStep(i) ==
    LET q == last.running[i]
        up == Upsert(readings, seq, q.tbl, q.r)
    IN  /\ q.pc = "write"
        /\ readings' = up.rd
        /\ seq' = up.sq
        /\ last' = Running([last.running EXCEPT ![i].pc = "calc"])
        /\ UNCHANGED <<calc, lock>>

\* _calculate_<table>_consumption(conn, entity, reading.date)
CalcStep(i) ==
    LET q == last.running[i]
    IN  /\ q.pc = "calc"
        /\ calc' = Calculate(readings, calc, q.tbl, q.r.entity, q.r.date, PyBool(q.r.warm))
        /\ last' = Running([last.running EXCEPT
                               ![i].pc = "prev",
                               ![i].recalculated = @ \cup {PeriodOf(q.r.date)}])
        /\ UNCHANGED <<readings, seq, lock>>

\* "SELECT 1 ... SUBSTR(date, 1, 7) = prev_period" and, when it finds a
\* row, the recalculation of the month before; then the handler returns.
PrevStep(i) ==
    LET q == last.running[i]
        w == PyBool(q.r.warm)
        prev_period == PrevPeriod(PeriodOf(q.r.date))
    IN  /\ q.pc = "prev"
        /\ calc' = CalculatePrevious(readings, calc, q.tbl, q.r.entity, q.r.date, w)
        /\ last' = Running([last.running EXCEPT
                               ![i].pc = "done",
                               ![i].recalculated =
                                   IF HasReadingIn(readings, q.tbl, q.r.entity, w, prev_period)
                                   THEN @ \cup {prev_period} ELSE @])
        /\ UNCHANGED <<readings, seq, lock>>

\* Saves of readings of one meter, on dates of three months, two at a time.
BeginPair == \E r \in Inputs("electricity", GapDates, {"a"}) : BeginSave("electricity", r)

WritePair == \E i \in 1..Len(last.running) : WriteStep(i)

CalcPair == \E i \in 1..Len(last.running) : CalcStep(i)

PrevPair == \E i \in 1..Len(last.running) : PrevStep(i)

NextPair == BeginPair \/ WritePair \/ CalcPair \/ PrevPair

SpecPair == InitPair /\ [][NextPair]_vars

\* Saves and updates by id of electricity and cold water readings, and
\* updates of several readings in one request that may move them to
\* another date.
NextItems == SaveSeveral \/ UpdateSeveral \/ UpdateByDate

SpecItems == Init /\ [][NextItems]_vars

TypeOK ==
    /\ \A t \in Tables : seq[t] \in Nat
    /\ Created(seq) <= MaxReadings \/ Created(seq) <= MaxSaves
    /\ \A r \in readings : r.id \in 1..seq[r.tbl]

\* ------------------------------------------------------------------------
\* Vocabulary of the properties.  A key K is a table, an entity (meter
\* name or room) and, for water, a channel.
\* ------------------------------------------------------------------------

EntityType(tbl, warm) ==
    CASE tbl = "electricity" -> "electricity"
      [] tbl = "gas" -> "gas"
      [] tbl = "water" -> IF warm THEN "water_warm" ELSE "water_cold"

TableOf(entity_type) ==
    IF entity_type \in {"water_warm", "water_cold"} THEN "water" ELSE entity_type

WarmOf(entity_type) == entity_type = "water_warm"

\* The current readings of key K.
ReadingsOf(rd, tbl, entity, warm) ==
    {r \in Table(rd, tbl) : r.entity = entity /\ r.warm = warm}

\* Month p lies after month q.
LaterPeriod(p, q) == p.y > q.y \/ (p.y = q.y /\ p.m > q.m)

\* What the engine yields for (P, K): its result on the readings of K dated
\* in P, ascending, followed by the earliest reading of K dated after P.
Expected(rd, tbl, entity, warm, period) ==
    LET rows == ReadingsOf(rd, tbl, entity, warm)
        later == {r \in rows : LaterPeriod(PeriodOf(r.date), period)}
        within == OrderByDate(InPeriod(rows, period))
    IN  calculate_consumption_from_readings(
            IF later = {} THEN within ELSE Append(within, FirstByDate(later)))

\* Every row stored for (P, K), whatever its meter id.
Records(cc, tbl, entity, warm, period) ==
    {c \in cc : /\ c.period = period
                /\ c.entity_type = EntityType(tbl, warm)
                /\ c.entity_id = entity}

\* The row a recalculation of (P, K) maintains: the one under the meter id
\* of the first reading of K (none when K has no reading).
Maintained(rd, cc, tbl, entity, warm, period) ==
    LET rows == ReadingsOf(rd, tbl, entity, warm)
    IN  {c \in Records(cc, tbl, entity, warm, period) :
            rows # {} /\ c.meter_id = Some(FirstById(rows).meter_id)}

\* The record of (P, K) is current: it holds the engine's result, and it is
\* stored when that result is a number.  (A row with a null value counts
\* like an absent one.)
Current(rd, cc, tbl, entity, warm, period) ==
    LET res == Expected(rd, tbl, entity, warm, period)
        mine == Maintained(rd, cc, tbl, entity, warm, period)
    IN  /\ \A c \in mine : /\ c.consumption_value = res.consumption
                           /\ c.calculation_details = res.details
        /\ res.consumption # None => mine # {}

\* K has a reading dated in P.
HasReadings(rd, tbl, entity, warm, period) ==
    InPeriod(ReadingsOf(rd, tbl, entity, warm), period) # {}

\* The period of the last request.
LastPeriod == PeriodOf(last.date)

\* ------------------------------------------------------------------------
\* Properties
\* ------------------------------------------------------------------------

\* C1: in every state reached by completed reading operations, every
\* stored consumption record holds the consumption value the engine yields
\* from the current readings of its key dated in its period followed by the
\* earliest current reading of the key after the period.
C1_RecordsCurrent ==
    \A c \in calc :
        c.consumption_value =
            Expected(readings, TableOf(c.entity_type), c.entity_id,
                     WarmOf(c.entity_type), c.period).consumption

\* The case of C2: the last request was a save of a reading of K dated in P
\* or a recalculation of (P, K), and K has exactly one reading in P and
\* none dated after P.
C2_Case ==
    LET rows == ReadingsOf(readings, last.tbl, last.entity, last.warm)
    IN  /\ last.op \in {"save", "recalc"}
        /\ last.outcome = "ok"
        /\ Cardinality(InPeriod(rows, LastPeriod)) = 1
        /\ \A r \in rows : ~LaterPeriod(PeriodOf(r.date), LastPeriod)

C3_SaveCascades ==
    (/\ last.op = "save"
     /\ last.outcome = "ok"
     /\ HasReadings(readings, last.tbl, last.entity, last.warm, PrevPeriod(LastPeriod)))
    => /\ Current(readings, calc, last.tbl, last.entity, last.warm, LastPeriod)
       /\ Current(readings, calc, last.tbl, last.entity, last.warm, PrevPeriod(LastPeriod))

\* A reading of January has been saved for a key with a reading in
\* December of the year before, and the record of December closes with the
\* saved reading.
C3_Witness ==
    /\ last.op = "save"
    /\ last.outcome = "ok"
    /\ last.date.m = 1
    /\ \E c \in Records(calc, last.tbl, last.entity, last.warm, PrevPeriod(LastPeriod)) :
           /\ c.consumption_value # None
           /\ c.calculation_details[1].last_reading_date = last.date

\* C4: after a delete of the only reading of K in P, which closed the
\* month before P, the record of (month before P, K) is recomputed from the
\* boundary that is left: it holds the engine's result over the remaining
\* readings and no longer the deleted reading's value.
C4_DeleteCascades ==
    (/\ last.op = "delete"
     /\ last.outcome = "ok"
     /\ ~HasReadings(readings, last.tbl, last.entity, last.warm, LastPeriod)
     /\ HasReadings(readings, last.tbl, last.entity, last.warm, PrevPeriod(LastPeriod)))
    => Current(readings, calc, last.tbl, last.entity, last.warm, PrevPeriod(LastPeriod))

\* C5: after a delete that removes the last reading of K in P, no record
\* is stored for (P, K), whether or not K has readings in other periods.
C5_NoRecordWithoutReadings ==
    (/\ last.op = "delete"
     /\ last.outcome = "ok"
     /\ ~HasReadings(readings, last.tbl, last.entity, last.warm, LastPeriod))
    => Records(calc, last.tbl, last.entity, last.warm, LastPeriod) = {}

\* C6: a recalculation of (P, K) that directly follows a recalculation of
\* the same (P, K) leaves every stored record as it was: presence, value
\* and details with the order of their segments.
C6_RecalculateTwice ==
    [][(last'.op = "recalc" /\ last'.outcome = "ok" /\ last'.n = 2) => calc' = calc]_vars

\* (P, K) has been recalculated twice in a row while two readings of K in
\* P carry the same date, and its record holds a number.
C6_Witness ==
    /\ last.op = "recalc"
    /\ last.outcome = "ok"
    /\ last.n = 2
    /\ \E a, b \in InPeriod(ReadingsOf(readings, last.tbl, last.entity, last.warm), LastPeriod) :
           a.id # b.id /\ a.date = b.date /\ a.value # b.value
    /\ \E c \in Records(calc, last.tbl, last.entity, last.warm, LastPeriod) :
           c.consumption_value # None

\* C7: after an update of a reading to date D and key K, the record of
\* (month of D, K) is current and, when K has a reading in the month
\* before, so is the record of (month before, K).
C7_UpdateCascades ==
    (last.op = "update" /\ last.outcome = "ok")
    => /\ Current(readings, calc, last.tbl, last.entity, last.warm, LastPeriod)
       /\ HasReadings(readings, last.tbl, last.entity, last.warm, PrevPeriod(LastPeriod))
          => Current(readings, calc, last.tbl, last.entity, last.warm, PrevPeriod(LastPeriod))

\* C8: an update that changes the entity or the water channel of a reading
\* leaves the record of the old key in the reading's old period current (it
\* no longer counts the moved reading), and the record of the new key too.
C8_OldKeyRecalculated ==
    [][\A x \in readings :
          (/\ last'.op = "update"
           /\ last'.outcome = "ok"
           /\ x.tbl = last'.tbl
           /\ x.id = last'.id
           /\ (x.entity # last'.entity \/ x.warm # last'.warm))
          => /\ Current(readings', calc', x.tbl, x.entity, x.warm, PeriodOf(x.date))
             /\ Current(readings', calc', x.tbl, last'.entity, last'.warm,
                        PeriodOf(last'.date))]_vars

\* C9: an update that moves a reading of K from period P to a different
\* period P' leaves the record of (P, K) current over the readings that
\* remain in P, and the record of (P', K) current with the moved reading.
C9_OldPeriodRecalculated ==
    [][\A x \in readings :
          (/\ last'.op = "update"
           /\ last'.outcome = "ok"
           /\ x.tbl = last'.tbl
           /\ x.id = last'.id
           /\ x.entity = last'.entity
           /\ x.warm = last'.warm
           /\ PeriodOf(x.date) # PeriodOf(last'.date))
          => /\ Current(readings', calc', x.tbl, x.entity, x.warm, PeriodOf(x.date))
             /\ Current(readings', calc', x.tbl, x.entity, x.warm,
                        PeriodOf(last'.date))]_vars

\* C10: in every reachable state at most one record is stored per
\* (period, entity type, entity id).
C10_OneRecordPerKey ==
    \A c, d \in calc :
        (/\ c.period = d.period
         /\ c.entity_type = d.entity_type
         /\ c.entity_id = d.entity_id)
        => c = d

\* C11: in every reachable state at most one reading is stored per (date,
\* entity identifier, channel), the entity identifier being the meter name
\* or the room: a save on the (date, entity identifier, channel) of a stored
\* reading overwrites it and adds no reading.
C11_OneReadingPerKey ==
    \A a, b \in readings :
        (/\ a.tbl = b.tbl
         /\ a.date = b.date
         /\ a.entity = b.entity
         /\ a.warm = b.warm)
        => a = b

\* C12: a save, update or delete of one reading is all or nothing: a
\* request that ends in an error after its reading write keeps neither the
\* reading change nor a part of the recomputations, so that the readings
\* and the records are as they were before the request.
C12_AllOrNothing ==
    [][(last'.op \in {"save", "update", "delete"} /\ last'.outcome = "error")
       => (readings' = readings /\ calc' = calc)]_vars

\* The values of a sequence of readings.
ValuesOf(rs) == [i \in 1..Len(rs) |-> rs[i].value]

\* The sum, over the adjacent pairs (earlier, later) of a sequence of
\* values, of later - earlier when that is not negative and of later
\* otherwise.
RECURSIVE SegmentSum(_)
SegmentSum(vs) ==
    IF Len(vs) < 2 THEN 0
    ELSE (IF vs[2] - vs[1] >= 0 THEN vs[2] - vs[1] ELSE vs[2]) + SegmentSum(Tail(vs))

\* C13: the engine's total for a sequence of two or more readings is the
\* sum, over its adjacent pairs, of later.value - earlier.value when that
\* difference is >= 0 and of later.value when it is negative; it is never
\* negative, and a pair with a negative difference counts its later value,
\* not 0.  For the values 100, 120, 30 the total is 50.
C13_SegmentConsumption ==
    (last.op = "engine" /\ Len(last.input) >= 2)
    => /\ last.result.consumption = Some(SegmentSum(ValuesOf(last.input)))
       /\ last.result.consumption[1] >= 0
       /\ last.result.details[1].total_consumption = last.result.consumption[1]
       /\ ValuesOf(last.input) = <<100, 120, 30>> => last.result.consumption = Some(50)

\* The engine has been called with the values 100, 120, 30 and returned 50.
C13_Witness ==
    /\ last.op = "engine"
    /\ ValuesOf(last.input) = <<100, 120, 30>>
    /\ last.result.consumption = Some(50)

\* The readings of K dated in P in ascending date order, followed by the
\* boundary reading (the earliest reading of K dated after P) if one exists.
SequenceOf(rd, tbl, entity, warm, period) ==
    LET rows == ReadingsOf(rd, tbl, entity, warm)
        later == {r \in rows : LaterPeriod(PeriodOf(r.date), period)}
        within == OrderByDate(InPeriod(rows, period))
    IN  IF later = {} THEN within ELSE Append(within, FirstByDate(later))

\* No value of the sequence is lower than the value before it.
NeverDown(vs) == \A i \in 1..(Len(vs) - 1) : vs[i + 1] >= vs[i]

\* C14: the consumption recorded for a period is the sum of the segment
\* consumptions of all adjacent pairs of the sequence "readings inside the
\* period in ascending date order, then the boundary reading if one
\* exists"; it equals last value minus first value exactly when no pair
\* has a negative difference.  In-period values 10, 15, 22 with the
\* boundary value 30 give 20.
C14_SumOfAllPairs ==
    \A c \in calc :
        LET vs == ValuesOf(SequenceOf(readings, TableOf(c.entity_type), c.entity_id,
                                      WarmOf(c.entity_type), c.period))
        IN  Len(vs) >= 2
            => /\ c.consumption_value = Some(SegmentSum(vs))
               /\ (c.consumption_value = Some(vs[Len(vs)] - vs[1])) <=> NeverDown(vs)
               /\ vs = <<10, 15, 22, 30>> => c.consumption_value = Some(20)

\* December holds the values 10, 15, 22, the first reading of January is
\* 30, and the record of December is 20.
C14_Witness ==
    \E c \in calc :
        /\ c.period = [y |-> 2023, m |-> 12]
        /\ ValuesOf(SequenceOf(readings, "electricity", "M", FALSE, c.period))
               = <<10, 15, 22, 30>>
        /\ Cardinality(InPeriod(readings, c.period)) = 3
        /\ c.consumption_value = Some(20)

\* C15: when K has at least two readings inside P and no reading dated
\* after P, the consumption recorded for (P, K) is the sum over the adjacent
\* pairs of the readings inside P only, and its details end with the last
\* reading inside P: nothing is counted from that reading to the end of the
\* period.  In-period values 10, 15, 22 give 12.
C15_OpenPeriodUndercounts ==
    \A c \in calc :
        LET rows == ReadingsOf(readings, TableOf(c.entity_type), c.entity_id,
                               WarmOf(c.entity_type))
            within == OrderByDate(InPeriod(rows, c.period))
            vs == ValuesOf(within)
        IN  (/\ Len(within) >= 2
             /\ \A r \in rows : ~LaterPeriod(PeriodOf(r.date), c.period))
            => /\ c.consumption_value = Some(SegmentSum(vs))
               /\ c.calculation_details[1].segment_count = Len(within) - 1
               /\ c.calculation_details[1].last_reading_date = within[Len(within)].date
               /\ vs = <<10, 15, 22>> => c.consumption_value = Some(12)

\* December holds the values 10, 15, 22, no reading is dated after
\* December, and the record of December is 12.
C15_Witness ==
    /\ ValuesOf(OrderByDate(readings)) = <<10, 15, 22>>
    /\ \A r \in readings : PeriodOf(r.date) = [y |-> 2023, m |-> 12]
    /\ \E c \in calc : c.period = [y |-> 2023, m |-> 12] /\ c.consumption_value = Some(12)

\* C16: for every input sequence the engine returns without an error; for
\* a sequence of fewer than two readings (none or one) it returns a null
\* consumption and null details, with a segment count of 0.
C16_ShortInputGivesNull ==
    last.op = "engine"
    => /\ last.outcome = "ok"
       /\ Len(last.input) < 2
          => last.result = [consumption |-> None, details |-> None, segment_count |-> 0]

\* The engine has been called with one reading and returned null.
C16_Witness ==
    /\ last.op = "engine"
    /\ Len(last.input) = 1
    /\ last.result.consumption = None
    /\ last.result.details = None

\* The readings of the key that the last call was about.
LastKeyRows ==
    {r \in readings : r.tbl = last.tbl /\ r.entity = last.entity /\ r.warm = last.warm}

\* C17: recomputing the record of a period and a key completes without an
\* error whatever the reading store holds (a key without readings, a
\* period without readings, a single reading, readings with differing
\* meter ids); the INSERT after the DELETE never fails on the uniqueness
\* constraint of the record table, and the connection is left free.
C17_RecalculationNeverFails ==
    last.op = "recalc"
    => /\ last.outcome = "ok"
       /\ lock = FALSE
       /\ \A c, d \in calc :
              (/\ c.period = d.period
               /\ c.entity_type = d.entity_type
               /\ c.entity_id = d.entity_id
               /\ c.meter_id = d.meter_id) => c = d

\* A period has been recomputed a second time in a row, without an error,
\* for a key whose readings of that period carry two meter ids and which
\* had a record of the period before the call.
C17_Witness ==
    /\ last.op = "recalc"
    /\ last.outcome = "ok"
    /\ last.n = 2
    /\ \E r, q \in LastKeyRows :
           /\ PeriodOf(r.date) = PeriodOf(last.date)
           /\ PeriodOf(q.date) = PeriodOf(last.date)
           /\ r.meter_id # q.meter_id
    /\ \E c \in calc : c.period = PeriodOf(last.date) /\ c.entity_id = last.entity

\* The entity type of the records of a water channel.
WaterType(warm) == IF warm THEN "water_warm" ELSE "water_cold"

\* The records of a water channel.
ChannelRecords(cc, warm) == {c \in cc : c.entity_type = WaterType(warm)}

\* The store without the water readings of the other channel.
WithoutOtherChannel(rd, warm) == {r \in rd : r.tbl = "water" => r.warm = warm}

\* C18: a save, update or delete of a water reading that stays on one
\* channel leaves the records of the other channel as they were, in every
\* room and period, and every record it writes is the one the same
\* recalculation gives on the store without the readings of the other
\* channel (no reading of the other channel is used, in the period or as
\* boundary).
C18_ChannelsIndependent ==
    [][(/\ last'.tbl = "water"
        /\ last'.op \in {"save", "update", "delete"})
       => \A w \in BOOLEAN :
              LET changed == (readings \ readings') \cup (readings' \ readings)
              IN  (/\ last'.warm = w
                   /\ \A r \in changed : r.tbl = "water" /\ r.warm = w)
                  => /\ ChannelRecords(calc', ~w) = ChannelRecords(calc, ~w)
                     /\ \A c \in calc' \ calc :
                            c \in calculate_water_consumption(
                                      WithoutOtherChannel(readings', w), {},
                                      c.entity_id, PeriodDay(c.period, 1), PyBool(w))]_vars

\* A cold reading has been saved in a room that has a warm record: the
\* cold record of the room carries a consumption, the warm record of the
\* same room another one or none.
C18_Witness ==
    /\ last.op = "save" /\ last.tbl = "water" /\ last.outcome = "ok"
    /\ ~last.warm
    /\ \E c, d \in calc :
           /\ c.entity_type = "water_cold" /\ c.entity_id = last.entity
           /\ c.consumption_value # None
           /\ d.entity_type = "water_warm" /\ d.entity_id = last.entity
           /\ d.consumption_value # c.consumption_value

\* C19: no operation writes a record of the entity type 'water_total': in
\* every reachable state each stored record has one of the entity types
\* electricity, gas, water_warm and water_cold.
C19_NoWaterTotalRecord ==
    \A c \in calc : c.entity_type \in {"electricity", "gas", "water_warm", "water_cold"}

\* Water readings of both channels of a room have been saved in one
\* period, and the period has a record of each channel.
C19_Witness ==
    \E c, d \in calc :
        /\ c.entity_type = "water_warm" /\ d.entity_type = "water_cold"
        /\ c.entity_id = d.entity_id /\ c.period = d.period
        /\ \E r, q \in readings :
               /\ r.tbl = "water" /\ r.entity = c.entity_id /\ r.warm
               /\ q.tbl = "water" /\ q.entity = c.entity_id /\ ~q.warm
               /\ PeriodOf(r.date) = c.period /\ PeriodOf(q.date) = c.period

\* The sequence rs with the is_reset flags fs.
WithFlags(rs, fs) == [i \in 1..Len(rs) |-> [rs[i] EXCEPT !.is_reset = fs[i]]]

\* C20: the result of the engine does not depend on the is_reset flags:
\* every sequence with the dates, values and comments of the input and any
\* other flags gives the same total, details and segment count; and a pair
\* with a negative difference counts its later value also when neither of
\* its readings is flagged.
C20_FlagsDoNotMatter ==
    last.op = "engine"
    => /\ \A fs \in [1..Len(last.input) -> BOOLEAN] :
              calculate_consumption_from_readings(WithFlags(last.input, fs)) = last.result
       /\ \A i \in 1..(Len(last.input) - 1) :
              (/\ Len(last.input) = 2
               /\ last.input[i + 1].value < last.input[i].value
               /\ ~last.input[i].is_reset /\ ~last.input[i + 1].is_reset)
              => last.result.consumption = Some(last.input[i + 1].value)
       /\ Len(last.input) >= 2
          => last.result.consumption = Some(SegmentSum(ValuesOf(last.input)))

\* The engine has been called with the values 100, 30, 22, none of them
\* flagged, and returned 30 + 22.
C20_Witness ==
    /\ last.op = "engine"
    /\ ValuesOf(last.input) = <<100, 30, 22>>
    /\ \A i \in 1..3 : ~last.input[i].is_reset
    /\ last.result.consumption = Some(52)

\* The period a round of the bulk delete recalculates.
RoundPeriod(x) ==
    IF x.prev THEN PrevPeriod(PeriodOf(last.date)) ELSE PeriodOf(last.date)

\* The rounds of the last bulk delete that did not raise left the records
\* of their keys current.
OtherRoundsRan ==
    \A x \in last.made \ last.raised :
        \A warm \in Channels(x.tbl) :
            Current(readings, calc, x.tbl, x.entity, warm, RoundPeriod(x))

\* C21: in the bulk delete of the readings of a date, when the
\* recalculation for one affected key fails, the recalculation still runs
\* for every other affected key, and the operation tells which keys failed.
C21_FailedKeysRecorded ==
    (last.op = "delete_by_date" /\ last.outcome = "ok")
    => /\ OtherRoundsRan
       /\ last.failed = last.raised

\* The months of the runs with a gap.
GapPeriods == {PeriodOf(d) : d \in GapDates}

\* C22: after saves on one key with one meter id, in any order of dates,
\* every stored record equals the engine's result over the current
\* readings; a save into P when the month before P is empty and an earlier
\* month Q has readings makes the record of Q use the new reading as its
\* boundary.
C22_SavesKeepRecordsCurrent ==
    last.op = "save"
    => \A period \in GapPeriods :
           Current(readings, calc, last.tbl, last.entity, FALSE, period)

\* C23: the boundary reading that closes period P for key K is the
\* earliest reading of K of a later month, whichever month that is; the
\* entries before it are the readings of K dated in P (on any day, with or
\* without a time), none of which is taken as the boundary, and no reading
\* dated before P appears.  Stated of the record a recalculation of (P, K)
\* has just written.
C23_BoundaryIsFirstAfterPeriod ==
    (last.op = "recalc" /\ last.outcome = "ok")
    => LET rows == ReadingsOf(readings, last.tbl, last.entity, last.warm)
           within == InPeriod(rows, LastPeriod)
           later == {r \in rows : LaterPeriod(PeriodOf(r.date), LastPeriod)}
           n == Cardinality(within)
       IN  \A c \in Maintained(readings, calc, last.tbl, last.entity, last.warm, LastPeriod) :
               IF c.calculation_details = None
               THEN n + (IF later = {} THEN 0 ELSE 1) < 2
               ELSE LET segs == c.calculation_details[1].segments
                    IN  /\ Len(segs) = n + (IF later = {} THEN 0 ELSE 1)
                        /\ \A i \in 1..n :
                               /\ PeriodOf(segs[i].date) = LastPeriod
                               /\ \E r \in within : r.date = segs[i].date
                        /\ later # {}
                           => /\ \E b \in later : b.date = segs[n + 1].date
                              /\ \A r \in later :
                                     DateKey(segs[n + 1].date) <= DateKey(r.date)

\* December has been recalculated for a meter whose readings of December
\* are the two of a reset on the 31st, dated with a time; January is empty
\* and the record closes with the reading of 10 February.
C23_Witness ==
    /\ last.op = "recalc" /\ last.outcome = "ok"
    /\ LastPeriod = [y |-> 2023, m |-> 12]
    /\ \E c \in calc :
           /\ c.period = LastPeriod /\ c.entity_id = last.entity
           /\ c.calculation_details # None
           /\ LET segs == c.calculation_details[1].segments
              IN  /\ Len(segs) = 3
                  /\ segs[1].date = Date(2023, 12, 31, 1)
                  /\ segs[2].date = Date(2023, 12, 31, 2)
                  /\ segs[3].date = Date(2024, 2, 10, 0)

\* C24: a bulk delete of the readings of a date in period P changes only
\* the records of the keys that had a reading deleted: for every key of
\* any utility that lost no reading, the records of (P, K') are the same
\* after the operation as before.  (Stated of the deletes during which no
\* recalculation raised.)
C24_BulkDeleteFrame ==
    [][(/\ last'.op = "delete_by_date"
        /\ last'.outcome = "ok"
        /\ last'.raised = {})
       => \A tbl \in Tables :
              \A entity \in Entities(tbl), warm \in Channels(tbl) :
                  ReadingsOf(readings \ readings', tbl, entity, warm) = {}
                  => Records(calc', tbl, entity, warm, PeriodOf(last'.date))
                     = Records(calc, tbl, entity, warm, PeriodOf(last'.date))]_vars

\* C25: for every input of n >= 2 readings the details of the engine list
\* n entries, the i-th with the date and the value of the i-th reading
\* (the boundary reading last), segment_count is n - 1, first_reading_date
\* and last_reading_date are the dates of the first and the last reading,
\* and the total of the details is the consumption returned.
C25_DetailsListEveryReading ==
    (last.op = "engine" /\ Len(last.input) >= 2)
    => /\ last.result.details # None
       /\ LET n == Len(last.input)
              details == last.result.details[1]
          IN  /\ Len(details.segments) = n
              /\ \A i \in 1..n :
                     /\ details.segments[i].date = last.input[i].date
                     /\ details.segments[i].value = last.input[i].value
                     /\ details.segments[i].comment = ""
              /\ details.segment_count = n - 1
              /\ last.result.segment_count = n - 1
              /\ details.first_reading_date = last.input[1].date
              /\ details.last_reading_date = last.input[n].date
              /\ last.result.consumption = Some(details.total_consumption)

\* The engine has been called with four readings and returned details of
\* four entries and three counted pairs.
C25_Witness ==
    /\ last.op = "engine"
    /\ Len(last.input) = 4
    /\ last.result.details # None
    /\ Len(last.result.details[1].segments) = 4
    /\ last.result.segment_count = 3

\* The readings of the meter of a reset that are flagged is_reset and
\* dated at 00:00:00 or 00:01:00 of the day of the last request: the rows
\* the request wrote.  (A flagged reading that an update by id has moved to
\* the plain date of the day is a row of an earlier request.)
ResetRows(x) ==
    {r \in ReadingsOf(readings, x.tbl, x.entity, x.warm) :
        /\ r.meter_id = x.meter_id
        /\ r.is_reset
        /\ r.date.y = last.date.y /\ r.date.m = last.date.m /\ r.date.d = last.date.d
        /\ r.date.t \in {1, 2}}

C27_BulkAllOrNothing ==
    [][(last'.op \in {"resets", "update_by_date"} /\ last'.outcome = "error")
       => (readings' = readings /\ calc' = calc)]_vars

\* C28: when two saves for the same key run at the same time and
\* interleave at their commits, then once both have returned the record
\* of every month that one of them recalculated equals the engine's result
\* over all stored readings, the two new ones included.
C28_ConcurrentSavesConsistent ==
    (/\ last.op = "saving"
     /\ Len(last.running) = 2
     /\ AllDone(last.running))
    => \A i \in 1..2 :
           LET q == last.running[i]
           IN  \A period \in q.recalculated :
                   Current(readings, calc, q.tbl, q.r.entity, q.r.warm, period)


\* ------------------------------------------------------------------------
\* Reading back: readings with the consumption of their month
\* ------------------------------------------------------------------------

\* The LEFT JOIN of the read operations: the consumption_calc rows of the
\* month of reading x, of its entity type and entity, stored under the
\* meter id of x.
JoinedRecords(cc, x) ==
    {c \in cc : /\ c.period = PeriodOf(x.date)
                /\ c.entity_type = EntityType(x.tbl, x.warm)
                /\ c.entity_id = x.entity
                /\ c.meter_id = Some(x.meter_id)}

\* get_electricity_reading, get_water_reading and get_gas_reading (and, row
\* by row, the list and by-date reads): the consumption returned with the
\* reading of this id, null without a joined row; no result when no reading
\* has the id.
get_reading(rd, cc, tbl, id) ==
    UNION {IF JoinedRecords(cc, x) = {}
           THEN {None}
           ELSE {c.consumption_value : c \in JoinedRecords(cc, x)}
           : x \in ById(rd, tbl, id)}

\* C29: every stored reading whose (month, entity) has a consumption record
\* is read back with the consumption of that record, also when the readings
\* of the entity carry several meter ids.
C29_ReadsReturnRecord ==
    \A x \in readings :
        LET recs == Records(calc, x.tbl, x.entity, x.warm, PeriodOf(x.date))
        IN  recs # {} =>
                get_reading(readings, calc, x.tbl, x.id)
                    = {c.consumption_value : c \in recs}


\* C30: an update by id that would give a reading the (date, entity,
\* meter id, channel) of another stored reading ends in an error and leaves
\* every reading and every consumption record as it was: nothing is merged
\* and nothing is duplicated.
C30_ConflictingUpdateFails ==
    [][\A tbl \in Tables : \A r \in OneMeter[tbl] :
           (/\ last' = Last("update", tbl, r, last'.id, last'.outcome)
            /\ ById(readings, tbl, last'.id) # {}
            /\ SameKey(readings \ ById(readings, tbl, last'.id), tbl, r) # {})
           => (/\ last'.outcome = "error"
               /\ readings' = readings
               /\ calc' = calc)]_vars

\* An update of a stored reading onto the key of another stored reading has
\* failed: both readings are stored under their own keys, with records.
C30_Witness ==
    /\ last.op = "update"
    /\ last.outcome = "error"
    /\ calc # {}
    /\ \E x \in ById(readings, last.tbl, last.id) :
           \E y \in Table(readings, last.tbl) :
               /\ y.id # x.id
               /\ y.date = last.date
               /\ y.entity = last.entity
               /\ y.warm = last.warm
               /\ y.meter_id = x.meter_id
               /\ (x.date # y.date \/ x.entity # y.entity \/ x.warm # y.warm)

====
